---- MODULE Spec2Model ----
(***************************************************************************)
(* Item service of src/main.py: five request handlers (create_item,        *)
(* read_item, read_all_items, update_item, delete_item) over one table     *)
(* "items" reached through a SQLAlchemy session per request (get_db).      *)
(*                                                                         *)
(* The handlers are sync functions, run on the threads of the server's     *)
(* pool: a request is one action for its session, one for the validation  *)
(* of its body, one for the clock reading of a create and one per round    *)
(* trip to the database, and the actions of the requests in flight         *)
(* interleave.                                                             *)
(***************************************************************************)
EXTENDS Integers, Sequences, FiniteSets, TLC

\* ------------------------------------------------------------------ bounds
MaxRequests == 3          \* requests started
Workers == {"w1", "w2"}   \* the threads of the pool, one request each at a time

\* ------------------------------------------------------------------ values
None == "<None>"                 \* Python None / SQL NULL
Str == {"foo", "bar"}            \* the strings requests carry
OptStr == Str \cup {None}
UnknownId == "0000"              \* a well-formed id that create never issued
ForgedId == "forged"             \* the value of an "id" key smuggled into a body
Columns == {"id", "name", "description"}

\* JSON bodies of POST /items: full, an explicit null, description left out.
CreateBodies ==
  { [name |-> "foo", description |-> "bar"],
    [name |-> "bar", description |-> None],
    [name |-> "bar"] }

\* JSON bodies of PUT /items/{item_id}: null description, null name, an "id" key
\* smuggled in, name left out.
UpdateBodies ==
  { [name |-> "bar", description |-> None],
    [name |-> None, description |-> "foo"],
    [id |-> ForgedId, name |-> "foo", description |-> None],
    [description |-> "foo"] }

\* --------------------------------------------------------- pydantic models
\* A field annotated Optional[str] with no default may be null but not left out.
\* ItemCreate: name is a str, description Optional[str]; other keys are ignored.
ItemCreateValid(b) ==
  /\ {"name", "description"} \subseteq DOMAIN b
  /\ b["name"] \in Str
  /\ b["description"] \in OptStr
ItemCreate(b) == [name |-> b["name"], description |-> b["description"]]

\* ItemUpdate: name and description, both Optional[str]; other keys are ignored.
ItemUpdateValid(b) ==
  /\ {"name", "description"} \subseteq DOMAIN b
  /\ b["name"] \in OptStr
  /\ b["description"] \in OptStr

\* Faulty variant of ItemUpdate: the model also declares id, so a body's id survives.
ItemUpdateWithId(b) ==
  IF "id" \in DOMAIN b
  THEN [id |-> b["id"], name |-> b["name"], description |-> b["description"]]
  ELSE [name |-> b["name"], description |-> b["description"]]

ItemUpdate(b) == [name |-> b["name"], description |-> b["description"]]

\* Item(**db_item.__dict__): id and name must be str, description may be None.
ItemValid(obj) == obj.id # None /\ obj.name # None
Item(obj) == [id |-> obj.id, name |-> obj.name, description |-> obj.description]

\* ------------------------------------------------------------ generate_id
Digit == <<"0", "1", "2", "3", "4", "5", "6", "7", "8", "9">>

RECURSIVE FormatNumber(_)
FormatNumber(n) ==
  IF n < 10 THEN Digit[n + 1] ELSE FormatNumber(n \div 10) \o Digit[(n % 10) + 1]

\* An f-string field: None prints as the text None.
FormatField(v) == IF v = None THEN "None" ELSE v

\* The digest, kept as an injective tag around the hashed text.
sha256_hexdigest(raw_data) == "sha256(" \o raw_data \o ")"

generate_id(name, description, now) ==
  sha256_hexdigest(FormatField(name) \o "-" \o FormatField(description) \o "-" \o FormatNumber(now))

\* Faulty variant of DBItem.__init__: the two text fields are stored crosswise.
DBItemSwapped(name, description, now) ==
  [id |-> generate_id(name, description, now), name |-> description, description |-> name]

\* DBItem.__init__
DBItem(name, description, now) ==
  [id |-> generate_id(name, description, now), name |-> name, description |-> description]

\* ------------------------------------------------------------- the table
Ids(tbl) == { tbl[i].id : i \in DOMAIN tbl }
RowOf(tbl, id) == tbl[CHOOSE i \in DOMAIN tbl : tbl[i].id = id]

\* Faulty variant of query_first: the filter on the id is lost.
query_first_unfiltered(tbl, item_id) == IF tbl = <<>> THEN <<>> ELSE <<tbl[1]>>

\* db.query(DBItem).filter(DBItem.id == item_id).first(): <<>> stands for None.
query_first(tbl, item_id) ==
  IF item_id \in Ids(tbl) THEN <<RowOf(tbl, item_id)>> ELSE <<>>

\* db.query(DBItem).all()
query_all(tbl) == tbl

\* db.add + the INSERT of db.commit(): the primary key rejects a second row of an id.
flush_insert(tbl, obj) ==
  IF obj.id \in Ids(tbl)
  THEN [ok |-> FALSE, error |-> "IntegrityError", tbl |-> tbl]
  ELSE [ok |-> TRUE, error |-> "", tbl |-> Append(tbl, obj)]

\* The setattr loop of update_item over item.dict().
setattrs(obj, fields) ==
  [c \in Columns |-> IF c \in DOMAIN fields THEN fields[c] ELSE obj[c]]

\* The columns whose value differs from the one the session loaded.
ChangedColumns(loaded, obj) == { c \in Columns : obj[c] # loaded[c] }

\* Faulty variant of flush_update: every column is written, changed or not.
flush_update_all_columns(tbl, loaded, obj) ==
  IF loaded.id \notin Ids(tbl)
  THEN [ok |-> FALSE, error |-> "StaleDataError", tbl |-> tbl]
  ELSE [ok |-> TRUE, error |-> "",
        tbl |-> [i \in DOMAIN tbl |-> IF tbl[i].id = loaded.id THEN obj ELSE tbl[i]]]

\* The UPDATE of db.commit() in update_item: it sets the changed columns only,
\* WHERE id = the loaded id; no changed column, no statement; a statement that
\* matches no row raises StaleDataError and the transaction is rolled back.
flush_update(tbl, loaded, obj) ==
  LET changed == ChangedColumns(loaded, obj) IN
  IF changed = {} THEN [ok |-> TRUE, error |-> "", tbl |-> tbl]
  ELSE IF loaded.id \notin Ids(tbl)
  THEN [ok |-> FALSE, error |-> "StaleDataError", tbl |-> tbl]
  ELSE IF "id" \in changed /\ obj.id \in Ids(tbl)
  THEN [ok |-> FALSE, error |-> "IntegrityError", tbl |-> tbl]
  ELSE [ok |-> TRUE, error |-> "",
        tbl |-> [i \in DOMAIN tbl |->
                   IF tbl[i].id = loaded.id
                   THEN [c \in Columns |-> IF c \in changed THEN obj[c] ELSE tbl[i][c]]
                   ELSE tbl[i]]]

\* Faulty variant of flush_delete: the removal never reaches the table.
flush_delete_lost(tbl, obj) == tbl

\* db.delete + the DELETE of db.commit() in delete_item: WHERE id = the loaded id;
\* a statement that matches no row only warns.
flush_delete(tbl, obj) == SelectSeq(tbl, LAMBDA r : r.id # obj.id)

\* db.refresh(db_item): the row of the object's primary key, <<>> when it is gone.
refresh(tbl, obj) == IF obj.id \in Ids(tbl) THEN <<RowOf(tbl, obj.id)>> ELSE <<>>

\* ------------------------------------------------------------- responses
OK(body) == [status |-> 200, detail |-> "OK", body |-> body]
NotFound == [status |-> 404, detail |-> "Item not found", body |-> <<>>]
ServerError(exception) == [status |-> 500, detail |-> exception, body |-> <<>>]
Unprocessable == [status |-> 422, detail |-> "RequestValidationError", body |-> <<>>]
NoResponse == [status |-> 0, detail |-> "", body |-> <<>>]

\* return Item(**db_item.__dict__): a ValidationError is not caught by the handler.
Respond(obj) == IF ItemValid(obj) THEN OK(<<Item(obj)>>) ELSE ServerError("ValidationError")

\* return [Item(**db_item.__dict__) for db_item in db_items]
RespondAll(rows) ==
  IF \A i \in DOMAIN rows : ItemValid(rows[i])
  THEN OK([i \in DOMAIN rows |-> Item(rows[i])])
  ELSE ServerError("ValidationError")

\* Faulty variant of delete_response: the answer is read back from the store.
delete_response_reread(tbl, obj) ==
  IF refresh(tbl, obj) = <<>> THEN ServerError("InvalidRequestError")
  ELSE Respond(refresh(tbl, obj)[1])

\* The last line of delete_item: the answer is built from the object the handler
\* holds, which the commit of a delete leaves loaded.
delete_response(tbl, obj) == Respond(obj)

\* db.refresh + return of create_item and update_item.
refresh_response(tbl, obj) ==
  IF refresh(tbl, obj) = <<>> THEN ServerError("InvalidRequestError")
  ELSE Respond(refresh(tbl, obj)[1])

\* ------------------------------------------------------------- sessions
\* sessionmaker: every call makes a new Session.
SessionLocal(made) == made + 1

\* Faulty variant of get_db_exit: close() follows the yield with no try/finally, so it
\* runs only when the handler returned.
get_db_exit_no_finally(opened, database, resp) ==
  IF resp.status = 200 THEN opened \ {database} ELSE opened

\* get_db after the yield: the finally clause closes the session however the
\* request ended.
get_db_exit(opened, database, resp) == opened \ {database}

\* ------------------------------------------------------------------ state
VARIABLES
  items,      \* the rows of table items, in storage order
  clock,      \* the last reading of time.time()
  issued,     \* the ids create_item has generated so far
  worker,     \* per thread, the request it serves and how far it is
  open,       \* the sessions opened and not closed
  sessions,   \* number of sessions SessionLocal() has made
  started,    \* number of requests started
  written,    \* history: id -> the fields a create or an undisturbed update left, until the next commit on the id
  gone,       \* history: ids whose delete was answered 200 and that no create has made again
  deleted,    \* history: ids whose delete was answered 200
  nCreated,   \* history: creates committed
  nDeleted,   \* history: deletes answered 200
  race        \* history: the last two requests that raced on one id, and what they left

vars == <<items, clock, issued, worker, open, sessions, started,
          written, gone, deleted, nCreated, nDeleted, race>>

Remove(f, k) == [x \in DOMAIN f \ {k} |-> f[x]]
Put(f, k, v) == (k :> v) @@ f
NoBody == <<>>

\* A thread with no request. Of a request: pc, op, item_id, body, item (the
\* validated body), session, obj (the object the handler holds), resp. History of
\* the request: lookup (what its SELECT found), clean (no other request has
\* committed on its id since it loaded or inserted the row), before (of a delete,
\* the row in the table right before its commit), and as its SELECT found them:
\* expect (of a read, written), wasDeleted (of a read or delete, gone and
\* deleted), count (of a list, nCreated - nDeleted).
Idle == [pc |-> "idle", op |-> "none", item_id |-> "", body |-> NoBody, item |-> <<>>,
         session |-> 0, obj |-> <<>>, resp |-> NoResponse,
         lookup |-> "none", clean |-> TRUE, before |-> <<>>,
         expect |-> <<>>, wasDeleted |-> "no", count |-> 0]
NoRace == [state |-> "none", id |-> "", first |-> <<>>, second |-> <<>>,
           before |-> <<>>, final |-> <<>>]

Init ==
  /\ items = <<>>
  /\ clock = 0
  /\ issued = {}
  /\ worker = [w \in Workers |-> Idle]
  /\ open = {}
  /\ sessions = 0
  /\ started = 0
  /\ written = <<>>
  /\ gone = {}
  /\ deleted = {}
  /\ nCreated = 0
  /\ nDeleted = 0
  /\ race = NoRace

KnownIds == issued \cup {UnknownId}

\* time.time(): wall-clock time, which may repeat a reading.
Readings == {clock, clock + 1} \ {0}

\* A request is taken: get_db makes its session and yields it.
Start(w, op, item_id, body) ==
  /\ worker[w].pc \in {"idle", "done"}
  /\ started < MaxRequests
  /\ started' = started + 1
  /\ sessions' = SessionLocal(sessions)
  /\ open' = open \cup {SessionLocal(sessions)}
  /\ worker' = [worker EXCEPT ![w] =
       [Idle EXCEPT !.pc = "validate", !.op = op, !.item_id = item_id, !.body = body,
                    !.session = SessionLocal(sessions)]]
  /\ UNCHANGED <<items, clock, issued, written, gone, deleted, nCreated, nDeleted, race>>

\* The body is validated against the model the handler declares: a body that
\* fails is answered 422 and the handler is not entered.
Validate(w) ==
  LET me == worker[w]
      valid == CASE me.op = "create" -> ItemCreateValid(me.body)
                 [] me.op = "update" -> ItemUpdateValid(me.body)
                 [] OTHER -> TRUE
  IN
  /\ me.pc = "validate"
  /\ worker' = [worker EXCEPT ![w] =
       IF ~valid THEN [me EXCEPT !.pc = "exit", !.resp = Unprocessable]
       ELSE CASE me.op = "create" -> [me EXCEPT !.pc = "enter", !.item = ItemCreate(me.body)]
              [] me.op = "update" -> [me EXCEPT !.pc = "query", !.item = ItemUpdate(me.body)]
              [] OTHER -> [me EXCEPT !.pc = "query"]]
  /\ UNCHANGED <<items, clock, issued, open, sessions, started,
                 written, gone, deleted, nCreated, nDeleted, race>>

\* create_item is entered: it builds the DBItem, which reads the clock.
Enter(w, now) ==
  LET me == worker[w] IN
  /\ me.pc = "enter"
  /\ clock' = now
  /\ worker' = [worker EXCEPT ![w] =
       [me EXCEPT !.pc = "commit",
                  !.obj = <<DBItem(me.item.name, me.item.description, now)>>]]
  /\ UNCHANGED <<items, issued, open, sessions, started,
                 written, gone, deleted, nCreated, nDeleted, race>>

\* read_item and read_all_items, which are one SELECT and the return.
read_item(tbl, item_id) ==
  LET db_item == query_first(tbl, item_id)
  IN IF db_item = <<>> THEN NotFound ELSE Respond(db_item[1])

read_all_items(tbl) == RespondAll(query_all(tbl))

\* The SELECT a handler opens with: read_item and read_all_items answer from it,
\* update_item and delete_item raise NotFound or go on with the object it loaded.
Query(w) ==
  LET me == worker[w]
      db_item == query_first(items, me.item_id)
      seen == [me EXCEPT
                 !.lookup = IF me.op = "list" THEN "none"
                            ELSE IF \E i \in DOMAIN items : items[i].id = me.item_id
                            THEN "present" ELSE "absent",
                 !.expect = IF me.op = "read" /\ me.item_id \in DOMAIN written
                            THEN <<written[me.item_id]>> ELSE <<>>,
                 !.wasDeleted = IF me.op \notin {"read", "delete"} THEN "no"
                                ELSE IF me.item_id \in gone THEN "gone"
                                ELSE IF me.item_id \in deleted THEN "again" ELSE "no",
                 !.count = IF me.op = "list" THEN nCreated - nDeleted ELSE 0]
  IN
  /\ me.pc = "query"
  /\ worker' = [worker EXCEPT ![w] =
       CASE me.op = "list" ->
              [seen EXCEPT !.pc = "exit", !.resp = read_all_items(items)]
         [] me.op = "read" ->
              [seen EXCEPT !.pc = "exit", !.resp = read_item(items, me.item_id)]
         [] OTHER ->
              IF db_item = <<>>
              THEN [seen EXCEPT !.pc = "exit", !.resp = NotFound]
              ELSE [seen EXCEPT !.pc = "commit", !.obj = db_item]]
  /\ UNCHANGED <<items, clock, issued, open, sessions, started,
                 written, gone, deleted, nCreated, nDeleted, race>>

\* What the two racing requests are remembered by.
Racer(me) == [op |-> me.op, item |-> me.item, loaded |-> me.obj]
Pending(w, id) ==
  { v \in Workers \ {w} :
      /\ worker[v].pc = "commit"
      /\ worker[v].op \in {"update", "delete"}
      /\ worker[v].item_id = id }

\* The race on an id, as the commit of thread w on that id moves it on: a commit
\* made while the other request holds its loaded object opens a race, the commit
\* of that other request closes it, a third request's commit in between voids it.
RaceAfter(w, after) ==
  LET me == worker[w]
      row(tbl) == IF \E i \in DOMAIN tbl : tbl[i].id = me.item_id
                  THEN <<tbl[CHOOSE i \in DOMAIN tbl : tbl[i].id = me.item_id]>>
                  ELSE <<>>
  IN
  IF me.op = "create"
  THEN IF race.state = "first" /\ race.id = me.obj[1].id
       THEN [race EXCEPT !.state = "void"] ELSE race
  ELSE IF race.state = "first" /\ race.id = me.item_id
  THEN IF race.second = Racer(me) /\ Pending(w, me.item_id) = {}
       THEN [race EXCEPT !.state = "both", !.final = row(after)]
       ELSE [race EXCEPT !.state = "void"]
  ELSE IF Pending(w, me.item_id) # {}
  THEN [state |-> "first", id |-> me.item_id, first |-> Racer(me),
        second |-> Racer(worker[CHOOSE v \in Pending(w, me.item_id) : TRUE]),
        before |-> row(items), final |-> <<>>]
  ELSE race

\* The statements of a handler from db.add, the setattr loop or db.delete up to
\* and including db.commit(); delete_item returns right after.
Commit(w) ==
  LET me == worker[w]
      id == me.obj[1].id
      ins == flush_insert(items, me.obj[1])
      obj == setattrs(me.obj[1], me.item)
      upd == flush_update(items, me.obj[1], obj)
      del == flush_delete(items, me.obj[1])
      after == CASE me.op = "create" -> ins.tbl
                 [] me.op = "update" -> upd.tbl
                 [] OTHER -> del
      resp == delete_response(del, me.obj[1])
      before == IF \E i \in DOMAIN items : items[i].id = id
                THEN <<items[CHOOSE i \in DOMAIN items : items[i].id = id]>>
                ELSE <<>>
      disturbed(v) == /\ v # w
                      /\ worker[v].pc \in {"commit", "refresh"}
                      /\ worker[v].obj[1].id = id
  IN
  /\ me.pc = "commit"
  /\ items' = after
  /\ race' = RaceAfter(w, after)
  /\ issued' = IF me.op = "create" THEN issued \cup {id} ELSE issued
  /\ nCreated' = IF me.op = "create" /\ ins.ok THEN nCreated + 1 ELSE nCreated
  /\ nDeleted' = IF me.op = "delete" /\ resp.status = 200 THEN nDeleted + 1 ELSE nDeleted
  /\ deleted' = IF me.op = "delete" /\ resp.status = 200 THEN deleted \cup {id} ELSE deleted
  /\ gone' = CASE me.op = "delete" /\ resp.status = 200 -> gone \cup {id}
               [] me.op = "create" /\ ins.ok -> gone \ {id}
               [] OTHER -> gone
  /\ written' = IF me.op = "create" /\ ins.ok
                THEN Put(written, id, [name |-> me.item.name,
                                       description |-> me.item.description, by |-> "create"])
                ELSE IF me.op = "create" THEN written ELSE Remove(written, id)
  /\ worker' = [v \in Workers |->
       IF disturbed(v) THEN [worker[v] EXCEPT !.clean = FALSE]
       ELSE IF v # w THEN worker[v]
       ELSE CASE me.op = "create" ->
                   IF ins.ok THEN [me EXCEPT !.pc = "refresh", !.clean = TRUE]
                   ELSE [me EXCEPT !.pc = "exit", !.resp = ServerError(ins.error)]
              [] me.op = "update" ->
                   IF upd.ok THEN [me EXCEPT !.pc = "refresh", !.obj = <<obj>>]
                   ELSE [me EXCEPT !.pc = "exit", !.resp = ServerError(upd.error)]
              [] OTHER ->
                   [me EXCEPT !.pc = "exit", !.resp = resp, !.before = before]]
  /\ UNCHANGED <<clock, open, sessions, started>>

\* db.refresh(db_item) and the return of create_item and update_item.
Refresh(w) ==
  LET me == worker[w]
      resp == refresh_response(items, me.obj[1])
  IN
  /\ me.pc = "refresh"
  /\ worker' = [worker EXCEPT ![w] = [me EXCEPT !.pc = "exit", !.resp = resp]]
  /\ written' = IF me.op = "update" /\ resp.status = 200 /\ me.clean
                THEN Put(written, me.item_id, [name |-> me.item.name,
                                               description |-> me.item.description,
                                               by |-> "update"])
                ELSE written
  /\ UNCHANGED <<items, clock, issued, open, sessions, started,
                 gone, deleted, nCreated, nDeleted, race>>

\* The request is over: get_db resumes after its yield; of the request only its
\* session and how it ended are kept.
Close(w) ==
  LET me == worker[w] IN
  /\ me.pc = "exit"
  /\ open' = get_db_exit(open, me.session, me.resp)
  /\ worker' = [worker EXCEPT ![w] =
       [Idle EXCEPT !.pc = "done", !.session = me.session,
                    !.resp = [me.resp EXCEPT !.body = <<>>]]]
  /\ UNCHANGED <<items, clock, issued, sessions, started,
                 written, gone, deleted, nCreated, nDeleted, race>>

Next ==
  \/ \E w \in Workers, body \in CreateBodies : Start(w, "create", "", body)
  \/ \E w \in Workers : Start(w, "list", "", NoBody)
  \/ \E w \in Workers, item_id \in KnownIds : Start(w, "read", item_id, NoBody)
  \/ \E w \in Workers, item_id \in KnownIds : Start(w, "delete", item_id, NoBody)
  \/ \E w \in Workers, item_id \in KnownIds, body \in UpdateBodies :
        Start(w, "update", item_id, body)
  \/ \E w \in Workers : Validate(w)
  \/ \E w \in Workers, now \in Readings : Enter(w, now)
  \/ \E w \in Workers : Query(w)
  \/ \E w \in Workers : Commit(w)
  \/ \E w \in Workers : Refresh(w)
  \/ \E w \in Workers : Close(w)

Spec == Init /\ [][Next]_vars

\* ------------------------------------------------------------------ claims
Record(id, fields) == [id |-> id, name |-> fields.name, description |-> fields.description]
Stored(id) == { items[i] : i \in { j \in DOMAIN items : items[j].id = id } }
AtExit(w, op) == worker[w].pc = "exit" /\ worker[w].op = op
\* A key of a body as the claims read it: a key left out is a null.
Claimed(b) == [name |-> IF "name" \in DOMAIN b THEN b["name"] ELSE None,
               description |-> IF "description" \in DOMAIN b THEN b["description"] ELSE None]

\* C1 (as stated): a create answered 200 returns a generated id with exactly the
\* submitted name and description, and a later read of that id, with no update or
\* delete of it in between, returns the same id, name and description.
C1_CreateThenRead ==
  /\ \A w \in Workers : (AtExit(w, "create") /\ worker[w].resp.status = 200) =>
       /\ worker[w].resp.body = <<Record(worker[w].obj[1].id, Claimed(worker[w].body))>>
       /\ worker[w].obj[1].id \in issued
  /\ \A w \in Workers :
       (AtExit(w, "read") /\ worker[w].expect # <<>> /\ worker[w].expect[1].by = "create") =>
         worker[w].resp = OK(<<Record(worker[w].item_id, worker[w].expect[1])>>)

\* C1 (amended): as stated for the read; the create returns the submitted name
\* and description when no other request committed on the new id between the
\* create's commit and its refresh, and until then the row holds them.
C1_CreateThenReadUndisturbed ==
  /\ \A w \in Workers :
       (AtExit(w, "create") /\ worker[w].resp.status = 200 /\ worker[w].clean) =>
         /\ worker[w].resp.body = <<Record(worker[w].obj[1].id, Claimed(worker[w].body))>>
         /\ worker[w].obj[1].id \in issued
         /\ \E now \in 1..clock :
              worker[w].resp.body[1].id =
                generate_id(worker[w].body["name"], worker[w].body["description"], now)
  /\ \A w \in Workers :
       (worker[w].pc = "refresh" /\ worker[w].op = "create" /\ worker[w].clean) =>
         Stored(worker[w].obj[1].id) =
           {Record(worker[w].obj[1].id, Claimed(worker[w].body))}
  /\ \A w \in Workers :
       (AtExit(w, "read") /\ worker[w].expect # <<>> /\ worker[w].expect[1].by = "create") =>
         worker[w].resp = OK(<<Record(worker[w].item_id, worker[w].expect[1])>>)

C1_Witness ==
  \E w \in Workers :
    /\ AtExit(w, "read")
    /\ worker[w].expect # <<>>
    /\ worker[w].expect[1].by = "create"
    /\ worker[w].resp.status = 200
    /\ worker[w].resp.body[1].description = None
    /\ Len(items) = 2

\* C2: after any sequence of operations the list succeeds, also on an empty
\* store, and returns the records created and not deleted, N - M of them after N
\* successful creates and M successful deletes.
C2_ListReturnsAll ==
  \A w \in Workers : AtExit(w, "list") =>
    /\ worker[w].resp.status = 200
    /\ Len(worker[w].resp.body) = worker[w].count

\* C3 (as stated): an update answered 200 has set the record's name and
\* description to the submitted values and kept its id, whatever the body
\* carries; a later read returns the updated fields; no record ever carries an id
\* other than the one create assigned.
C3_UpdateKeepsId ==
  /\ \A w \in Workers : (AtExit(w, "update") /\ worker[w].resp.status = 200) =>
       worker[w].resp.body = <<Record(worker[w].item_id, Claimed(worker[w].body))>>
  /\ \A w \in Workers :
       (AtExit(w, "read") /\ worker[w].expect # <<>> /\ worker[w].expect[1].by = "update") =>
         worker[w].resp = OK(<<Record(worker[w].item_id, worker[w].expect[1])>>)
  /\ \A i \in DOMAIN items : items[i].id \in issued

\* C3 (amended): the id part holds as stated; an update answered 200 has set and
\* returns the submitted name and description when no other request committed on
\* that id between the update's lookup and its refresh, and a read that follows
\* such an update with no commit on the id in between returns them.
C3_UpdateKeepsIdUndisturbed ==
  /\ \A w \in Workers : (AtExit(w, "update") /\ worker[w].resp.status = 200) =>
       /\ worker[w].lookup = "present"
       /\ Len(worker[w].resp.body) = 1
       /\ worker[w].resp.body[1].id = worker[w].item_id
       /\ worker[w].clean =>
            worker[w].resp.body = <<Record(worker[w].item_id, Claimed(worker[w].body))>>
  /\ \A w \in Workers :
       (worker[w].pc = "refresh" /\ worker[w].op = "update" /\ worker[w].clean) =>
         Stored(worker[w].item_id) = {Record(worker[w].item_id, Claimed(worker[w].body))}
  /\ \A w \in Workers :
       (AtExit(w, "read") /\ worker[w].expect # <<>> /\ worker[w].expect[1].by = "update") =>
         worker[w].resp = OK(<<Record(worker[w].item_id, worker[w].expect[1])>>)
  /\ \A i \in DOMAIN items : items[i].id \in issued

C3_Witness ==
  \E w \in Workers :
    /\ AtExit(w, "update")
    /\ worker[w].resp.status = 200
    /\ worker[w].clean
    /\ "id" \in DOMAIN worker[w].body
    /\ Stored(worker[w].item_id) = {Record(worker[w].item_id, Claimed(worker[w].body))}
    /\ worker[w].item_id # worker[w].body["id"]

\* C4 (as stated): once a delete of an id was answered 200, the id is not in the
\* store, and every read and delete of it that looks it up from then on is
\* answered NotFound.
C4_DeletedStaysGone ==
  /\ \A id \in deleted : Stored(id) = {}
  /\ \A w \in Workers :
       ((AtExit(w, "read") \/ AtExit(w, "delete")) /\ worker[w].wasDeleted # "no") =>
         worker[w].resp = NotFound

\* C4 (amended): once a delete of an id was answered 200, and until a create
\* generates that id again, the id is not in the store and every read and delete
\* that looks it up is answered NotFound.
C4_DeletedStaysGoneUntilReissued ==
  /\ \A id \in gone : Stored(id) = {}
  /\ \A w \in Workers :
       ((AtExit(w, "read") \/ AtExit(w, "delete")) /\ worker[w].wasDeleted = "gone") =>
         worker[w].resp = NotFound

C4_Witness ==
  \E w \in Workers :
    /\ AtExit(w, "delete")
    /\ worker[w].wasDeleted = "gone"
    /\ worker[w].resp.status = 404
    /\ nDeleted = 1

\* C5 (as stated): a delete answered 200 returns the id, name and description the
\* record held in the store right before the delete removed it, although the row
\* is gone by the time the answer is built.
C5_DeleteEchoes ==
  \A w \in Workers : (AtExit(w, "delete") /\ worker[w].resp.status = 200) =>
    /\ worker[w].before # <<>>
    /\ worker[w].resp.body = <<Record(worker[w].item_id, worker[w].before[1])>>

\* C5 (amended): a delete answered 200 returns the values its lookup read, from
\* the object the handler holds; they are the values the record held right before
\* the delete when no other request committed on that id between the lookup and
\* the delete's commit. A delete that found a record with a name is answered 200.
C5_DeleteEchoesLookup ==
  /\ \A w \in Workers : (AtExit(w, "delete") /\ worker[w].resp.status = 200) =>
       /\ worker[w].lookup = "present"
       /\ worker[w].resp.body = <<Record(worker[w].item_id, worker[w].obj[1])>>
       /\ worker[w].clean =>
            /\ worker[w].before # <<>>
            /\ worker[w].resp.body = <<Record(worker[w].item_id, worker[w].before[1])>>
  /\ \A w \in Workers :
       (AtExit(w, "delete") /\ worker[w].lookup = "present" /\ worker[w].obj[1].name # None) =>
         worker[w].resp.status = 200

C5_Witness ==
  \E w \in Workers :
    /\ AtExit(w, "delete")
    /\ worker[w].resp.status = 200
    /\ worker[w].clean
    /\ worker[w].resp.body[1].description = None
    /\ Stored(worker[w].item_id) = {}

\* C6: a read, update or delete whose lookup finds no record of its id ends with
\* 404 "Item not found" and never comes to a statement that writes.
C6_NotFoundNoEffect ==
  \A w \in Workers : worker[w].lookup = "absent" =>
    /\ worker[w].op \in {"read", "update", "delete"}
    /\ worker[w].pc = "exit"
    /\ worker[w].resp = NotFound
    /\ worker[w].resp.detail = "Item not found"

C6_Witness ==
  \E w \in Workers :
    /\ AtExit(w, "update")
    /\ worker[w].lookup = "absent"
    /\ worker[w].item_id = UnknownId
    /\ worker[w].resp.status = 404
    /\ items # <<>>

\* C7: an update of an existing id overwrites both fields, a field left out of
\* the body with null, is persisted, and returns the updated record.
C7_UpdateOverwritesAndReturns ==
  \A w \in Workers :
    (/\ AtExit(w, "update")
     /\ worker[w].clean
     /\ \/ worker[w].lookup = "present"
        \/ worker[w].resp.status = 422 /\ Stored(worker[w].item_id) # {}) =>
      worker[w].resp = OK(<<Record(worker[w].item_id, Claimed(worker[w].body))>>)

\* C8: every record in the store has a string id, a string name (never null) and
\* a string or null description, so read and list can serialize every record.
C8_RecordsConform ==
  /\ \A i \in DOMAIN items :
       /\ items[i].id \in issued
       /\ items[i].name \in Str
       /\ items[i].description \in OptStr
  /\ \A w \in Workers : (AtExit(w, "read") \/ AtExit(w, "list")) => worker[w].resp.status # 500

InFlight(w) == worker[w].pc \in {"validate", "enter", "query", "commit", "refresh", "exit"}

\* C9: every request in flight holds an open session of its own, no session
\* serves two requests, and no request is over, however it ended, while its
\* session is open: the only open sessions are those of requests in flight.
C9_SessionScoped ==
  /\ \A w \in Workers : InFlight(w) => worker[w].session \in open
  /\ \A w \in Workers, v \in Workers :
       (w # v /\ worker[w].pc # "idle" /\ worker[v].pc # "idle") =>
         worker[w].session # worker[v].session
  /\ \A w \in Workers : worker[w].pc = "done" => worker[w].session \notin open
  /\ \A database \in open : \E w \in Workers : InFlight(w) /\ worker[w].session = database

C9_Witness ==
  \E w \in Workers, v \in Workers :
    /\ worker[w].pc = "done"
    /\ worker[w].resp.status = 500
    /\ worker[v].pc = "commit"
    /\ open = {worker[v].session}

Wrote(r, c) == r.op = "update" /\ r.item[c] # r.loaded[1][c]

\* C10 (as stated): after two requests raced on an id, each having done its
\* lookup before the other committed, the id is in the state written by the one
\* whose commit came last: absent after a delete, the submitted fields after an
\* update. (A commit that fails or has no statement to send is no write.)
C10_LastCommitWins ==
  race.state = "both" =>
    LET secondWrote ==
          \/ race.second.op = "delete"
          \/ /\ race.first.op = "update"
             /\ \E c \in {"name", "description"} : Wrote(race.second, c)
        last == IF secondWrote THEN race.second ELSE race.first
    IN race.final = IF last.op = "delete" THEN <<>>
                    ELSE <<Record(race.id, last.item)>>

\* C10 (amended): after such a race the id is absent if either request was a
\* delete; after two updates every field holds the value of the last of the two
\* commits that changed it, a commit changing only the fields whose submitted
\* value differs from the value its own lookup read.
C10_LastWriterPerField ==
  race.state = "both" =>
    IF race.first.op = "delete" \/ race.second.op = "delete"
    THEN race.final = <<>>
    ELSE race.final =
           <<[c \in Columns |->
                IF c # "id" /\ Wrote(race.second, c) THEN race.second.item[c]
                ELSE IF c # "id" /\ Wrote(race.first, c) THEN race.first.item[c]
                ELSE race.before[1][c]]>>

C10_Witness ==
  /\ race.state = "both"
  /\ race.first.op = "update"
  /\ race.second.op = "update"
  /\ Wrote(race.first, "description")
  /\ ~Wrote(race.second, "description")
  /\ Wrote(race.second, "name")
  /\ race.final[1].description = race.first.item.description
  /\ race.final[1].description # race.second.item.description

====
